---- MODULE Spec2Model ----
(***************************************************************************)
(* State-machine model of the two Ansible modules of this repository:      *)
(*   library/gandi_livedns.py        (present / absent reconciliation)     *)
(*   library/gandi_livedns_facts.py  (read-only record listing)            *)
(* One invocation of a module is a process that walks through its HTTP     *)
(* requests one at a time; every request is answered by the provider       *)
(* (the LiveDNS REST API), which owns the remote record store.             *)
(*                                                                         *)
(* Python values are represented as follows:                               *)
(*   None          -> <<>>              (None)                             *)
(*   a value v     -> <<v>>             (Some(v)) wherever None is allowed *)
(*   a list        -> a sequence                                           *)
(*   a dict        -> a function from its keys to optional values          *)
(***************************************************************************)
EXTENDS Integers, Sequences, FiniteSets, TLC

VARIABLES
    store,      \* provider: scope path -> list of rrset dicts
    args,       \* per process: module.params of the invocation (fixed task)
    pc,         \* per process: position in the invocation
    zone_id,    \* per process: local zone_id (optional)
    records,    \* per process: local records, result of the last get_records
    changed,    \* per process: self.changed
    result,     \* per process: result.record handed to exit_json (optional)
    outcome,    \* per process: how the invocation ended
    reqs,       \* per process: HTTP requests issued by the current invocation
    lastGet,    \* per process: status of the last record lookup (0: none yet)
    runs,       \* per process: number of invocations started
    prev,       \* per process: summary of the previous invocation (optional)
    store0,     \* per process: the store when the current invocation began
    quiet       \* per process: no other process wrote since the previous
                \*              invocation of this process began

vars == <<store, args, pc, zone_id, records, changed, result, outcome,
          reqs, lastGet, runs, prev, store0, quiet>>

(***************************************************************************)
(* Bounds of the model.                                                    *)
(***************************************************************************)
MaxRuns == 2

Procs == {1, 2}

None == <<>>
Some(v) == <<v>>

(***************************************************************************)
(* Python helpers.                                                         *)
(***************************************************************************)
\* bool(x) of an optional string: None and "" are falsy
TruthyStr(x) == x # None /\ x[1] # ""

\* bool(x) of an optional list: None and [] are falsy
TruthyList(x) == x # None /\ x[1] # <<>>

\* dict.get(k, None)
Get(d, k) == IF k \in DOMAIN d THEN d[k] ELSE None

\* set(list)
SetOf(s) == {s[i] : i \in 1..Len(s)}

\* str.lower() on the alphabet of names used here
Lower(s) == IF s = "WWW" THEN "www" ELSE s

lowercase_string(param) == IF param = None THEN None ELSE Some(Lower(param[1]))


(***************************************************************************)
(* Inputs: the task parameters an invocation can be given.                 *)
(***************************************************************************)
Modules == {"gandi_livedns", "gandi_livedns_facts"}
Names == {"www", "WWW"}
Types == {"A"}
ValueLists == {<<"a">>, <<"a", "b">>, <<"a", "a">>}
TTLs == {300, 10800}
ZoneNames == {"my.com", "other.org"}
DomainNames == {"my.com"}

Opt(S) == {None} \cup {Some(v) : v \in S}

\* argument_spec of gandi_livedns: record has a default, so it is never None
LivednsParams ==
    [module : {"gandi_livedns"}, state : {"present", "absent"},
     check_mode : BOOLEAN, record : Opt(Names) \ {None}, type : Opt(Types),
     values : Opt(ValueLists), ttl : Opt(TTLs),
     zone : Opt(ZoneNames), domain : Opt(DomainNames)]

\* argument_spec of gandi_livedns_facts: record and type are optional; the
\* fields the facts module does not have are fixed
FactsParams ==
    [module : {"gandi_livedns_facts"}, state : {"query"},
     check_mode : {FALSE}, record : Opt(Names), type : Opt(Types),
     values : {None}, ttl : {None},
     zone : Opt(ZoneNames), domain : Opt(DomainNames)]

Params == LivednsParams \cup FactsParams

(***************************************************************************)
(* The provider (LiveDNS REST API).  It owns the zones and, per scope      *)
(* path, the list of record sets.  A request is                            *)
(*   [method, url (sequence of path segments), payload (optional dict)]    *)
(* and an answer is [status, body, after] with body one of                 *)
(*   <<"null">>, <<"object", dict>>, <<"list", sequence of dicts>>.        *)
(***************************************************************************)
ZoneList == << [name |-> "example.net", uuid |-> "uuid0"],
               [name |-> "my.com", uuid |-> "uuid1"] >>

ScopeKeys == {<<"zones", "uuid1">>, <<"domains", "my.com">>}

Rrset(name, type, values, ttl) ==
    [rrset_name |-> Some(name), rrset_type |-> Some(type),
     rrset_values |-> Some(values), rrset_ttl |-> Some(ttl)]

StoredRecords ==
    {Rrset("www", "A", v, t) : v \in {<<"a">>, <<"b", "a">>}, t \in TTLs}

Stores == [ScopeKeys -> {<<>>} \cup {<<r>> : r \in StoredRecords}]

RECURSIVE SelectSeq2(_, _, _)
\* the elements r of list with r[key] = val, in order
SelectSeq2(list, key, val) ==
    IF list = <<>> THEN <<>>
    ELSE IF Head(list)[key] = val
         THEN <<Head(list)>> \o SelectSeq2(Tail(list), key, val)
         ELSE SelectSeq2(Tail(list), key, val)

RECURSIVE RemoveRrset(_, _, _)
RemoveRrset(list, name, type) ==
    IF list = <<>> THEN <<>>
    ELSE IF Head(list).rrset_name = Some(name) /\ Head(list).rrset_type = Some(type)
         THEN RemoveRrset(Tail(list), name, type)
         ELSE <<Head(list)>> \o RemoveRrset(Tail(list), name, type)

Find(list, name, type) ==
    SelectSeq2(SelectSeq2(list, "rrset_name", Some(name)), "rrset_type", Some(type))

Answer(status, body, after) == [status |-> status, body |-> body, after |-> after]

\* the ttl the provider gives a record set that is sent without one
TtlOrDefault(ttl) == IF ttl = None THEN 10800 ELSE ttl[1]

\* GET on a path below .../records.  A name (and type) nothing matches is
\* answered by 404 or by an empty list: the callers are written for both
ProviderGet(url, st) ==
    LET scope == SubSeq(url, 1, 2) IN
    IF scope \notin ScopeKeys THEN {Answer(404, <<"null">>, st)}
    ELSE IF Len(url) = 3 THEN {Answer(200, <<"list", st[scope]>>, st)}
    ELSE IF Len(url) = 4
    THEN LET found == SelectSeq2(st[scope], "rrset_name", Some(url[4])) IN
         IF found = <<>>
         THEN {Answer(404, <<"null">>, st), Answer(200, <<"list", <<>> >>, st)}
         ELSE {Answer(200, <<"list", found>>, st)}
    ELSE LET found == Find(st[scope], url[4], url[5]) IN
         IF found = <<>>
         THEN {Answer(404, <<"null">>, st), Answer(200, <<"list", <<>> >>, st)}
         ELSE {Answer(200, <<"object", found[1]>>, st)}

\* POST .../records: creates the record set, refuses an existing one
ProviderPost(url, payload, st) ==
    LET scope == SubSeq(url, 1, 2) IN
    IF scope \notin ScopeKeys THEN {Answer(404, <<"null">>, st)}
    ELSE IF Find(st[scope], payload.rrset_name[1], payload.rrset_type[1]) # <<>>
    THEN {Answer(409, <<"null">>, st)}
    ELSE LET rec == Rrset(payload.rrset_name[1], payload.rrset_type[1],
                          payload.rrset_values[1], TtlOrDefault(payload.rrset_ttl))
             after == [st EXCEPT ![scope] = Append(@, rec)]
         IN {Answer(201, <<"null">>, after), Answer(200, <<"null">>, after)}

\* PUT .../records/{name}/{type}: replaces the record set, or creates it
ProviderPut(url, payload, st) ==
    LET scope == SubSeq(url, 1, 2) IN
    IF scope \notin ScopeKeys THEN {Answer(404, <<"null">>, st)}
    ELSE LET rec == Rrset(url[4], url[5], payload.rrset_values[1],
                          TtlOrDefault(payload.rrset_ttl))
             after == [st EXCEPT ![scope] =
                           Append(RemoveRrset(@, url[4], url[5]), rec)]
         IN IF Find(st[scope], url[4], url[5]) # <<>>
            THEN {Answer(201, <<"null">>, after)}
            ELSE {Answer(201, <<"null">>, after), Answer(404, <<"null">>, st)}

\* DELETE .../records/{name}/{type}
ProviderDelete(url, st) ==
    LET scope == SubSeq(url, 1, 2) IN
    IF scope \notin ScopeKeys THEN {Answer(404, <<"null">>, st)}
    ELSE IF Find(st[scope], url[4], url[5]) = <<>>
    THEN {Answer(404, <<"null">>, st)}
    ELSE {Answer(204, <<"null">>,
                 [st EXCEPT ![scope] = RemoveRrset(@, url[4], url[5])])}

\* every answer the provider can give to a request; any request can also be
\* refused (401) without effect
Provider(req, st) ==
    {Answer(401, <<"null">>, st)} \cup
    (IF req.method = "GET" /\ req.url = <<"zones">>
     THEN {Answer(200, <<"list", ZoneList>>, st)}
     ELSE IF req.method = "GET" THEN ProviderGet(req.url, st)
     ELSE IF req.method = "POST" THEN ProviderPost(req.url, req.payload[1], st)
     ELSE IF req.method = "PUT" THEN ProviderPut(req.url, req.payload[1], st)
     ELSE ProviderDelete(req.url, st))

Request(method, url, payload) == [method |-> method, url |-> url, payload |-> payload]

(***************************************************************************)
(* gandi_livedns.py and gandi_livedns_facts.py: the pure parts.            *)
(***************************************************************************)
\* AnsibleModule(required_if=...) of gandi_livedns; the facts module has none
RequiredIfOk(a) ==
    \/ a.module = "gandi_livedns_facts"
    \/ /\ a.record # None
       /\ a.type # None
       /\ (a.state = "present" => a.values # None)

\* main(): at least one of zone and domain
ScopeGiven(a) == TruthyStr(a.zone) \/ TruthyStr(a.domain)

\* GandiAPI.__init__: self.record and self.domain are lower-cased
SelfRecord(a) == lowercase_string(a.record)
SelfDomain(a) == lowercase_string(a.domain)

\* _gandi_api_call of gandi_livedns.py: does this status make the call fail?
ApiCallFails(status, error_on_404) ==
    status >= 400 /\ (status # 404 \/ error_on_404)

\* _gandi_api_call of gandi_livedns_facts.py: error_on_404 is not consulted
FactsApiCallFails(status, error_on_404) ==
    status >= 400

CallFails(a, status, error_on_404) ==
    IF a.module = "gandi_livedns" THEN ApiCallFails(status, error_on_404)
    ELSE FactsApiCallFails(status, error_on_404)

RECURSIVE ZoneScan(_, _)
\* _get_zone_id: the uuid of the first zone named zone_name, None if there
\* is none (the caller then fails)
ZoneScan(zones, zone_name) ==
    IF zones = <<>> THEN None
    ELSE IF Head(zones).name = zone_name THEN Some(Head(zones).uuid)
    ELSE ZoneScan(Tail(zones), zone_name)

\* the scope prefix shared by get_records, create_record, update_record and
\* delete_record
ScopeUrl(zid, domain) ==
    IF TruthyStr(zid) THEN <<"zones", zid[1]>>
    ELSE <<"domains", IF domain = None THEN "None" ELSE domain[1]>>

\* get_records: the url
RecordsUrl(name, type, zid, domain) ==
    ScopeUrl(zid, domain) \o <<"records">>
      \o (IF TruthyStr(name)
          THEN <<name[1]>> \o (IF TruthyStr(type) THEN <<type[1]>> ELSE <<>>)
          ELSE <<>>)

\* get_records: what is returned for an answer that did not fail
RecordsOf(name, type, ans) ==
    IF ans.status = 404 THEN None
    ELSE LET list == IF ans.body[1] = "list" THEN ans.body[2]
                     ELSE IF ans.body[1] = "object" THEN <<ans.body[2]>>
                     ELSE <<None>>
         IN Some(IF ~TruthyStr(name) /\ TruthyStr(type)
                 THEN SelectSeq2(list, "rrset_type", type)
                 ELSE list)

\* create_record: the url and the payload
CreateUrl(zid, domain) == ScopeUrl(zid, domain) \o <<"records">>

\* variant: the ttl is left out of the payload
CreatePayload_DropTtl(name, type, values, ttl) ==
    [rrset_name |-> name, rrset_type |-> type,
     rrset_values |-> values, rrset_ttl |-> None]

CreatePayload(name, type, values, ttl) ==
    [rrset_name |-> name, rrset_type |-> type,
     rrset_values |-> values, rrset_ttl |-> ttl]

\* create_record: the value returned for an answer that did not fail
CreateReturn(new_record, status) ==
    IF status = 201 THEN Some(new_record) ELSE None

\* update_record and delete_record: the url
ItemUrl(name, type, zid, domain) ==
    ScopeUrl(zid, domain) \o <<"records", name[1], type[1]>>

\* variant: the ttl is left out of the payload
UpdatePayload_DropTtl(values, ttl) == [rrset_values |-> values, rrset_ttl |-> None]

\* update_record: the payload
UpdatePayload(values, ttl) == [rrset_values |-> values, rrset_ttl |-> ttl]

\* delete_record: the two checks made before the DELETE call
DeleteMisuse(a) ==
    \/ a.type = None \/ SelfRecord(a) = None
    \/ a.values # None

\* ensure_dns_record: new_record, the synthesized desired record
NewRecord(a) ==
    [type |-> a.type, name |-> SelfRecord(a), values |-> a.values, ttl |-> a.ttl]

\* variant: the values are compared as lists, not as sets
DoUpdate_ListCompare(a, record) ==
    \/ a.ttl # None /\ record["rrset_ttl"] # a.ttl
    \/ a.values # None /\ record["rrset_values"] # a.values

\* ensure_dns_record: do_update
DoUpdate(a, record) ==
    \/ a.ttl # None /\ record["rrset_ttl"] # a.ttl
    \/ a.values # None /\ SetOf(record["rrset_values"][1]) # SetOf(a.values[1])

\* the provider field read for an output field: 'rrset_' + k
RrsetKey(k) ==
    CASE k = "name" -> "rrset_name"
      [] k = "type" -> "rrset_type"
      [] k = "ttl" -> "rrset_ttl"
      [] k = "values" -> "rrset_values"

\* variant: domain labels the output whenever it is given
LabelKey_PreferDomain(a) == IF TruthyStr(a.domain) THEN "domain" ELSE "zone"

\* build_result: which of zone / domain labels the output
LabelKey(a) == IF TruthyStr(a.zone) THEN "zone" ELSE "domain"

\* build_result (and one element of build_results of the facts module)
BuildResult(a, res) ==
    IF res = None THEN None
    ELSE LET raw == res[1]
             kept == {k \in {"name", "type", "ttl", "values"} :
                         Get(raw, RrsetKey(k)) # None}
         IN Some([k \in kept \cup {LabelKey(a)} |->
                    IF k \in kept THEN Get(raw, RrsetKey(k))
                    ELSE IF k = "zone" THEN a.zone ELSE SelfDomain(a)])

(***************************************************************************)
(* The invocations.  pc values: "off" (no task), "main", "get_zones",      *)
(* "get_records", "create", "update", "refetch", "delete", "exit".         *)
(* outcome values: "running", "ok" (exit_json), and the fail_json /        *)
(* exception endings "validation", "zone_not_found", "api_error",          *)
(* "misuse", "exception".                                                  *)
(***************************************************************************)
Mutating == {"POST", "PUT", "DELETE"}

\* the invocation of p ends: fail_json, exit_json or an uncaught exception
Exit(p, oc, ch, res) ==
    /\ pc' = [pc EXCEPT ![p] = "exit"]
    /\ outcome' = [outcome EXCEPT ![p] = oc]
    /\ changed' = [changed EXCEPT ![p] = ch]
    /\ result' = [result EXCEPT ![p] = res]

\* the invocation of p goes on to its next request
Goto(p, next, ch) ==
    /\ pc' = [pc EXCEPT ![p] = next]
    /\ changed' = [changed EXCEPT ![p] = ch]
    /\ UNCHANGED <<outcome, result>>

\* p sends req and the provider answers ans: the request is logged, the
\* store takes the provider's effect, the other processes see a writer
Send(p, req, ans) ==
    /\ ans \in Provider(req, store)
    /\ reqs' = [reqs EXCEPT ![p] = Append(@, req)]
    /\ store' = ans.after
    /\ quiet' = [q \in Procs |->
                    IF q # p /\ ans.after # store THEN FALSE ELSE quiet[q]]

\* main() up to the first request: argument validation and __init__
Main(p) ==
    /\ pc[p] = "main"
    /\ runs' = [runs EXCEPT ![p] = @ + 1]
    /\ store0' = [store0 EXCEPT ![p] = store]
    /\ IF ~RequiredIfOk(args[p]) \/ ~ScopeGiven(args[p])
       THEN Exit(p, "validation", FALSE, None)
       ELSE Goto(p, IF TruthyStr(args[p].zone) THEN "get_zones" ELSE "get_records",
                 FALSE)
    /\ UNCHANGED <<store, args, zone_id, records, reqs, lastGet, prev, quiet>>

\* _get_zone_id / get_zones
GetZones(p) ==
    /\ pc[p] = "get_zones"
    /\ \E ans \in Provider(Request("GET", <<"zones">>, None), store) :
         /\ Send(p, Request("GET", <<"zones">>, None), ans)
         /\ IF CallFails(args[p], ans.status, TRUE)
            THEN /\ Exit(p, "api_error", changed[p], None)
                 /\ UNCHANGED zone_id
            ELSE LET zid == ZoneScan(ans.body[2], args[p].zone[1]) IN
                 IF zid = None
                 THEN /\ Exit(p, "zone_not_found", changed[p], None)
                      /\ UNCHANGED zone_id
                 ELSE /\ Goto(p, "get_records", changed[p])
                      /\ zone_id' = [zone_id EXCEPT ![p] = zid]
    /\ UNCHANGED <<args, records, lastGet, runs, prev, store0>>

\* the request of get_records, as the three callers make it
LookupRequest(p) ==
    Request("GET",
            RecordsUrl(SelfRecord(args[p]), args[p].type, zone_id[p],
                       SelfDomain(args[p])),
            None)

\* ensure_dns_record after the lookup returned recs
AfterLookupPresent(p, recs) ==
    LET a == args[p] IN
    IF TruthyList(recs)
    THEN IF DoUpdate(a, recs[1][1])
         THEN IF a.check_mode
              THEN Exit(p, "ok", TRUE, BuildResult(a, Some(NewRecord(a))))
              ELSE Goto(p, "update", changed[p])
         ELSE Exit(p, "ok", changed[p], BuildResult(a, Some(recs[1][1])))
    ELSE IF a.check_mode
         THEN Exit(p, "ok", TRUE, BuildResult(a, Some(NewRecord(a))))
         ELSE Goto(p, "create", changed[p])

\* variant: check_mode is not consulted before delete_record
AfterLookupAbsent_IgnoreCheckMode(p, recs) ==
    LET a == args[p] IN
    IF TruthyList(recs)
    THEN IF DeleteMisuse(a)
         THEN Exit(p, "misuse", TRUE, None)
         ELSE Goto(p, "delete", TRUE)
    ELSE Exit(p, "ok", changed[p], None)

\* variant: self.changed is set before the records are looked at
AfterLookupAbsent_AlwaysChanged(p, recs) ==
    LET a == args[p] IN
    IF TruthyList(recs)
    THEN IF ~a.check_mode
         THEN IF DeleteMisuse(a)
              THEN Exit(p, "misuse", TRUE, None)
              ELSE Goto(p, "delete", TRUE)
         ELSE Exit(p, "ok", TRUE, None)
    ELSE Exit(p, "ok", TRUE, None)

\* delete_dns_records after the lookup returned recs, up to the DELETE call
AfterLookupAbsent(p, recs) ==
    LET a == args[p] IN
    IF TruthyList(recs)
    THEN IF ~a.check_mode
         THEN IF DeleteMisuse(a)
              THEN Exit(p, "misuse", TRUE, None)
              ELSE Goto(p, "delete", TRUE)
         ELSE Exit(p, "ok", TRUE, None)
    ELSE Exit(p, "ok", changed[p], None)

\* get_dns_records / main of the facts module after the lookup returned recs
AfterLookupFacts(p, recs) ==
    LET a == args[p] IN
    Exit(p, "ok", FALSE,
         IF recs = None THEN None
         ELSE Some([i \in 1..Len(recs[1]) |-> BuildResult(a, Some(recs[1][i]))[1]]))

\* get_records as called first by ensure_dns_record, delete_dns_records and
\* get_dns_records, and what each does with the result
GetRecords(p) ==
    /\ pc[p] = "get_records"
    /\ \E ans \in Provider(LookupRequest(p), store) :
         /\ Send(p, LookupRequest(p), ans)
         /\ lastGet' = [lastGet EXCEPT ![p] = ans.status]
         /\ IF CallFails(args[p], ans.status, FALSE)
            THEN /\ Exit(p, "api_error", changed[p], None)
                 /\ UNCHANGED records
            ELSE LET recs == RecordsOf(SelfRecord(args[p]), args[p].type, ans) IN
                 /\ records' = [records EXCEPT ![p] = recs]
                 /\ IF args[p].state = "present" THEN AfterLookupPresent(p, recs)
                    ELSE IF args[p].state = "absent" THEN AfterLookupAbsent(p, recs)
                    ELSE AfterLookupFacts(p, recs)
    /\ UNCHANGED <<args, zone_id, runs, prev, store0>>

\* variant: the record is fetched again after a create as well
Create_ThenRefetch(p) ==
    LET a == args[p]
        new_record == CreatePayload(SelfRecord(a), a.type, a.values, a.ttl)
        req == Request("POST", CreateUrl(zone_id[p], SelfDomain(a)), Some(new_record))
    IN
    /\ pc[p] = "create"
    /\ \E ans \in Provider(req, store) :
         /\ Send(p, req, ans)
         /\ IF CallFails(a, ans.status, TRUE)
            THEN Exit(p, "api_error", changed[p], None)
            ELSE Goto(p, "refetch", changed[p])
    /\ UNCHANGED <<args, zone_id, records, lastGet, runs, prev, store0>>

\* create_record and the end of ensure_dns_record
Create(p) ==
    LET a == args[p]
        new_record == CreatePayload(SelfRecord(a), a.type, a.values, a.ttl)
        req == Request("POST", CreateUrl(zone_id[p], SelfDomain(a)), Some(new_record))
    IN
    /\ pc[p] = "create"
    /\ \E ans \in Provider(req, store) :
         /\ Send(p, req, ans)
         /\ IF CallFails(a, ans.status, TRUE)
            THEN Exit(p, "api_error", changed[p], None)
            ELSE Exit(p, "ok", TRUE,
                      BuildResult(a, CreateReturn(new_record, ans.status)))
    /\ UNCHANGED <<args, zone_id, records, lastGet, runs, prev, store0>>

\* update_record
Update(p) ==
    LET a == args[p]
        req == Request("PUT",
                       ItemUrl(SelfRecord(a), a.type, zone_id[p], SelfDomain(a)),
                       Some(UpdatePayload(a.values, a.ttl)))
    IN
    /\ pc[p] = "update"
    /\ \E ans \in Provider(req, store) :
         /\ Send(p, req, ans)
         /\ IF CallFails(a, ans.status, TRUE)
            THEN Exit(p, "api_error", changed[p], None)
            ELSE Goto(p, "refetch", changed[p])
    /\ UNCHANGED <<args, zone_id, records, lastGet, runs, prev, store0>>

\* ensure_dns_record after update_record: the second get_records, records[0]
\* and the return
Refetch(p) ==
    /\ pc[p] = "refetch"
    /\ \E ans \in Provider(LookupRequest(p), store) :
         /\ Send(p, LookupRequest(p), ans)
         /\ lastGet' = [lastGet EXCEPT ![p] = ans.status]
         /\ IF CallFails(args[p], ans.status, FALSE)
            THEN /\ Exit(p, "api_error", changed[p], None)
                 /\ UNCHANGED records
            ELSE LET recs == RecordsOf(SelfRecord(args[p]), args[p].type, ans) IN
                 /\ records' = [records EXCEPT ![p] = recs]
                 /\ IF TruthyList(recs)
                    THEN Exit(p, "ok", TRUE, BuildResult(args[p], Some(recs[1][1])))
                    ELSE Exit(p, "exception", changed[p], None)
    /\ UNCHANGED <<args, zone_id, runs, prev, store0>>

\* delete_record from its DELETE call on, and the end of delete_dns_records
Delete(p) ==
    LET a == args[p]
        req == Request("DELETE",
                       ItemUrl(SelfRecord(a), a.type, zone_id[p], SelfDomain(a)),
                       None)
    IN
    /\ pc[p] = "delete"
    /\ \E ans \in Provider(req, store) :
         /\ Send(p, req, ans)
         /\ IF CallFails(a, ans.status, TRUE)
            THEN Exit(p, "api_error", changed[p], None)
            ELSE Exit(p, "ok", changed[p], None)
    /\ UNCHANGED <<args, zone_id, records, lastGet, runs, prev, store0>>

\* the same task is run again: a fresh process with fresh locals
Rerun(p) ==
    /\ pc[p] = "exit"
    /\ runs[p] < MaxRuns
    /\ prev' = [prev EXCEPT ![p] =
                  Some([outcome |-> outcome[p], changed |-> changed[p],
                        result |-> result[p], reqs |-> reqs[p],
                        store0 |-> store0[p], store1 |-> store,
                        quiet |-> quiet[p]])]
    /\ pc' = [pc EXCEPT ![p] = "main"]
    /\ outcome' = [outcome EXCEPT ![p] = "running"]
    /\ changed' = [changed EXCEPT ![p] = FALSE]
    /\ result' = [result EXCEPT ![p] = None]
    /\ zone_id' = [zone_id EXCEPT ![p] = None]
    /\ records' = [records EXCEPT ![p] = None]
    /\ reqs' = [reqs EXCEPT ![p] = <<>>]
    /\ lastGet' = [lastGet EXCEPT ![p] = 0]
    /\ quiet' = [quiet EXCEPT ![p] = TRUE]
    /\ UNCHANGED <<store, args, runs, store0>>

Idle == [module |-> "none"]

\* one task, run up to MaxRuns times against any provider state; no other
\* writer
Init ==
    /\ store \in Stores
    /\ \E a \in Params : args = [p \in Procs |-> IF p = 1 THEN a ELSE Idle]
    /\ pc = [p \in Procs |-> IF p = 1 THEN "main" ELSE "off"]
    /\ zone_id = [p \in Procs |-> None]
    /\ records = [p \in Procs |-> None]
    /\ changed = [p \in Procs |-> FALSE]
    /\ result = [p \in Procs |-> None]
    /\ outcome = [p \in Procs |-> "running"]
    /\ reqs = [p \in Procs |-> <<>>]
    /\ lastGet = [p \in Procs |-> 0]
    /\ runs = [p \in Procs |-> 0]
    /\ prev = [p \in Procs |-> None]
    /\ store0 = [p \in Procs |-> store]
    /\ quiet = [p \in Procs |-> TRUE]

Next ==
    \E p \in Procs :
        \/ Main(p)
        \/ GetZones(p)
        \/ GetRecords(p)
        \/ Create(p)
        \/ Update(p)
        \/ Refetch(p)
        \/ Delete(p)
        \/ Rerun(p)

Spec == Init /\ [][Next]_vars

\* the locals of freshly started processes
FreshLocals ==
    /\ zone_id = [p \in Procs |-> None]
    /\ records = [p \in Procs |-> None]
    /\ changed = [p \in Procs |-> FALSE]
    /\ result = [p \in Procs |-> None]
    /\ outcome = [p \in Procs |-> "running"]
    /\ reqs = [p \in Procs |-> <<>>]
    /\ lastGet = [p \in Procs |-> 0]
    /\ runs = [p \in Procs |-> 0]
    /\ prev = [p \in Procs |-> None]
    /\ store0 = [p \in Procs |-> store]
    /\ quiet = [p \in Procs |-> TRUE]

\* the same gandi_livedns task against the same provider state, first with
\* check_mode on (process 1) and, once that has ended, with check_mode off
\* (process 2)
InitDryThenReal ==
    /\ store \in Stores
    /\ \E a \in LivednsParams :
         /\ a.check_mode
         /\ args = [p \in Procs |->
                      IF p = 1 THEN a ELSE [a EXCEPT !.check_mode = FALSE]]
    /\ pc = [p \in Procs |-> "main"]
    /\ FreshLocals

\* process 2 waits for process 1 to end
Turn(p) == p = 2 => pc[1] = "exit"

NextDryThenReal ==
    \E p \in Procs :
        \/ Turn(p) /\ Main(p)
        \/ Turn(p) /\ GetZones(p)
        \/ Turn(p) /\ GetRecords(p)
        \/ Turn(p) /\ Create(p)
        \/ Turn(p) /\ Update(p)
        \/ Turn(p) /\ Refetch(p)
        \/ Turn(p) /\ Delete(p)

SpecDryThenReal == InitDryThenReal /\ [][NextDryThenReal]_vars

\* two invocations at the same time: a real present task (process 1) and a
\* real absent task for the same scope, name and type (process 2); their
\* requests reach the provider in any order
InitConc ==
    /\ store \in Stores
    /\ \E a \in LivednsParams :
         /\ a.state = "present" /\ ~a.check_mode
         /\ args = [p \in Procs |->
                      IF p = 1 THEN a
                      ELSE [a EXCEPT !.state = "absent", !.values = None]]
    /\ pc = [p \in Procs |-> "main"]
    /\ FreshLocals

NextConc ==
    \E p \in Procs :
        \/ Main(p)
        \/ GetZones(p)
        \/ GetRecords(p)
        \/ Create(p)
        \/ Update(p)
        \/ Refetch(p)
        \/ Delete(p)

SpecConc == InitConc /\ [][NextConc]_vars

(***************************************************************************)
(* Vocabulary of the properties.                                           *)
(***************************************************************************)
IsLivedns(p, state) == args[p].module = "gandi_livedns" /\ args[p].state = state

\* the provider path an accepted invocation is expected to work on
TargetScope(a) ==
    IF a.zone # None THEN <<"zones", "uuid1">> ELSE <<"domains", "my.com">>

\* the record set (scope, name, type) of the task a, as a list, in store st
Target(a, st) == Find(st[TargetScope(a)], Lower(a.record[1]), a.type[1])

MethodsOf(rs) == {rs[i].method : i \in 1..Len(rs)}

CountOf(rs, methods) == Cardinality({i \in 1..Len(rs) : rs[i].method \in methods})

\* p ran its task twice, both runs ended with exit_json, and nobody else wrote
TwoOkRuns(p) ==
    /\ pc[p] = "exit" /\ outcome[p] = "ok" /\ quiet[p]
    /\ prev[p] # None /\ prev[p][1].outcome = "ok" /\ prev[p][1].quiet

(***************************************************************************)
(* C1  Idempotence of present intent: when the record set of the task is   *)
(* missing, a real (non-dry-run) present task run twice in a row with no   *)
(* other writer reports changed=true, then changed=false, and the remote   *)
(* store after the second run is the store after the first.                *)
(***************************************************************************)
C1_PresentIdempotent ==
    \A p \in Procs :
        ( /\ IsLivedns(p, "present") /\ ~args[p].check_mode
          /\ TwoOkRuns(p)
          /\ Target(args[p], prev[p][1].store0) = <<>> )
        => /\ prev[p][1].changed = TRUE
           /\ changed[p] = FALSE
           /\ store = prev[p][1].store1
           /\ Target(args[p], store) # <<>>

C1_Witness ==
    \E p \in Procs :
        /\ IsLivedns(p, "present") /\ ~args[p].check_mode
        /\ TwoOkRuns(p)
        /\ Target(args[p], prev[p][1].store0) = <<>>
        /\ "POST" \in MethodsOf(prev[p][1].reqs)
        /\ args[p].ttl = None
        /\ changed[p] = FALSE

JustLookedUp(p) ==
    /\ reqs[p] # <<>>
    /\ reqs[p][Len(reqs[p])].method = "GET"
    /\ reqs[p][Len(reqs[p])].url # <<"zones">>

(***************************************************************************)
(* C2  404 treated as absence, in both modules: when the record lookup for *)
(* a specific name has just been answered 404, get_records returned None   *)
(* and the invocation has not failed with an API error.                    *)
(***************************************************************************)
C2_NotFoundIsAbsence ==
    \A p \in Procs :
        ( /\ args[p].module \in Modules
          /\ args[p].record # None
          /\ JustLookedUp(p) /\ lastGet[p] = 404 )
        => outcome[p] # "api_error" /\ records[p] = None

\* the stored record r already has the ttl and the value set the task asks for
Same(a, r) ==
    /\ (a.ttl = None \/ r.rrset_ttl = a.ttl)
    /\ SetOf(r.rrset_values[1]) = SetOf(a.values[1])

\* the task a has something to change in store st
Needed(a, st) ==
    IF a.state = "absent" THEN Target(a, st) # <<>>
    ELSE Target(a, st) = <<>> \/ ~Same(a, Target(a, st)[1])

(***************************************************************************)
(* C3  Dry-run non-mutation: a check_mode invocation never issues POST,    *)
(* PUT or DELETE, and when it ends and a create, update or delete was      *)
(* needed (judged on the remote state it started from) it reports          *)
(* changed=true.                                                           *)
(***************************************************************************)
C3_DryRunNoMutation ==
    \A p \in Procs :
        (args[p].module = "gandi_livedns" /\ args[p].check_mode)
        => /\ MethodsOf(reqs[p]) \cap Mutating = {}
           /\ store = store0[p]
           /\ (pc[p] = "exit" /\ outcome[p] = "ok" /\ Needed(args[p], store0[p]))
                 => changed[p] = TRUE

C3_Witness ==
    \E p \in Procs :
        /\ IsLivedns(p, "absent") /\ args[p].check_mode
        /\ pc[p] = "exit" /\ outcome[p] = "ok" /\ changed[p]
        /\ Target(args[p], store) # <<>>
        /\ Len(reqs[p]) = 2

(***************************************************************************)
(* C4  Dry-run result content: a check_mode present invocation that ends   *)
(* with changed=true returns a record whose name, type, ttl and values are *)
(* the desired ones.                                                       *)
(***************************************************************************)
C4_DryRunResultIsDesired ==
    \A p \in Procs :
        ( /\ IsLivedns(p, "present") /\ args[p].check_mode
          /\ pc[p] = "exit" /\ outcome[p] = "ok" /\ changed[p] )
        => /\ result[p] # None
           /\ Get(result[p][1], "name") = Some(Lower(args[p].record[1]))
           /\ Get(result[p][1], "type") = args[p].type
           /\ Get(result[p][1], "ttl") = args[p].ttl
           /\ Get(result[p][1], "values") = args[p].values

BothScopes(p) ==
    /\ args[p].module = "gandi_livedns"
    /\ args[p].zone # None /\ args[p].domain # None
    /\ RequiredIfOk(args[p])

\* every record request of p goes to the zone-id path of my.com
AllOnZonePath(p) ==
    \A i \in 1..Len(reqs[p]) :
        reqs[p][i].url # <<"zones">>
        => SubSeq(reqs[p][i].url, 1, 3) = <<"zones", "uuid1", "records">>

(***************************************************************************)
(* C5  Scope precedence with both zone and domain supplied, as claimed:    *)
(* the invocation is accepted, every record request is on the zone-id      *)
(* path, and the returned record is labeled with domain.                   *)
(***************************************************************************)
C5_LabeledWithDomain ==
    \A p \in Procs :
        BothScopes(p)
        => /\ outcome[p] # "validation"
           /\ AllOnZonePath(p)
           /\ (pc[p] = "exit" /\ outcome[p] = "ok" /\ result[p] # None)
                 => /\ Get(result[p][1], "domain") = Some(Lower(args[p].domain[1]))
                    /\ "zone" \notin DOMAIN result[p][1]

\* C5 as amended: the invocation is accepted, every record request is on the
\* zone-id path, and the returned record is labeled with zone, not domain
C5_LabeledWithZone ==
    \A p \in Procs :
        BothScopes(p)
        => /\ outcome[p] # "validation"
           /\ AllOnZonePath(p)
           /\ (pc[p] = "exit" /\ outcome[p] = "ok" /\ result[p] # None)
                 => /\ Get(result[p][1], "zone") = args[p].zone
                    /\ "domain" \notin DOMAIN result[p][1]

C5_Witness ==
    \E p \in Procs :
        /\ BothScopes(p) /\ args[p].state = "present"
        /\ pc[p] = "exit" /\ outcome[p] = "ok" /\ result[p] # None
        /\ MethodsOf(reqs[p]) = {"GET", "PUT"}
        /\ store[<<"domains", "my.com">>] # <<>>
        /\ store[<<"domains", "my.com">>] # store[<<"zones", "uuid1">>]

(***************************************************************************)
(* C6  Idempotence of absent intent: when no record set exists for the     *)
(* task, whether the lookup is answered 404 or an empty list, an absent    *)
(* invocation whose lookup went through ends with changed=false and has    *)
(* issued no POST, PUT or DELETE; and the second of two absent runs in a   *)
(* row, the first of which deleted the record set, reports changed=false.  *)
(***************************************************************************)
C6_AbsentIdempotent ==
    \A p \in Procs :
        (IsLivedns(p, "absent") /\ RequiredIfOk(args[p]))
        => /\ ( /\ Target(args[p], store0[p]) = <<>> /\ quiet[p]
                /\ JustLookedUp(p) /\ lastGet[p] \in {200, 404} )
                 => /\ pc[p] = "exit" /\ outcome[p] = "ok"
                    /\ changed[p] = FALSE
                    /\ MethodsOf(reqs[p]) \cap Mutating = {}
                    /\ store = store0[p]
           /\ (TwoOkRuns(p) /\ "DELETE" \in MethodsOf(prev[p][1].reqs))
                 => /\ changed[p] = FALSE
                    /\ MethodsOf(reqs[p]) \cap Mutating = {}

C6_Witness ==
    \E p \in Procs :
        /\ IsLivedns(p, "absent")
        /\ TwoOkRuns(p) /\ "DELETE" \in MethodsOf(prev[p][1].reqs)
        /\ prev[p][1].changed
        /\ lastGet[p] = 200 /\ records[p] = Some(<<>>)
        /\ changed[p] = FALSE

\* the output record res shows the provider record r
Shows(res, r) ==
    /\ res # None
    /\ Get(res[1], "name") = r.rrset_name
    /\ Get(res[1], "type") = r.rrset_type
    /\ Get(res[1], "ttl") = r.rrset_ttl
    /\ Get(res[1], "values") = r.rrset_values

(***************************************************************************)
(* C7  Set semantics and no-op: in a present invocation that finds a       *)
(* record whose ttl is the desired one (or no ttl is desired) and whose    *)
(* values equal the desired values as sets, no POST or PUT is issued, and  *)
(* it ends with changed=false and the existing record as its result; a PUT *)
(* is issued only when the ttl or the value set differs.                   *)
(***************************************************************************)
C7_NoOpOnSameSet ==
    \A p \in Procs :
        (IsLivedns(p, "present") /\ RequiredIfOk(args[p]) /\ quiet[p])
        => LET before == Target(args[p], store0[p]) IN
           /\ (before # <<>> /\ Same(args[p], before[1]))
                 => /\ MethodsOf(reqs[p]) \cap Mutating = {}
                    /\ store = store0[p]
                    /\ (pc[p] = "exit" /\ outcome[p] = "ok")
                          => changed[p] = FALSE /\ Shows(result[p], before[1])
           /\ "PUT" \in MethodsOf(reqs[p])
                 => before # <<>> /\ ~Same(args[p], before[1])

C7_Witness ==
    \E p \in Procs :
        /\ IsLivedns(p, "present") /\ ~args[p].check_mode
        /\ pc[p] = "exit" /\ outcome[p] = "ok" /\ changed[p] = FALSE
        /\ args[p].values = Some(<<"a", "b">>)
        /\ args[p].ttl # None
        /\ result[p] # None
        /\ Get(result[p][1], "values") = Some(<<"b", "a">>)

IsZoneList(r) == r.method = "GET" /\ r.url = <<"zones">>

IsLookup(r) == r.method = "GET" /\ r.url # <<"zones">>

(***************************************************************************)
(* C8  Request sequence of one invocation: the requests are, in order, the *)
(* zone list (exactly when zone is set), the record lookup, at most one    *)
(* mutating call, and a re-fetch that comes only after a PUT.              *)
(***************************************************************************)
C8_RequestSequence ==
    \A p \in Procs :
        LET rs == reqs[p]
            k == IF TruthyStr(args[p].zone) THEN 1 ELSE 0
        IN pc[p] # "off"
           => /\ Len(rs) <= k + 3
              /\ \A i \in 1..Len(rs) :
                    /\ i <= k => IsZoneList(rs[i])
                    /\ i = k + 1 => IsLookup(rs[i])
                    /\ i = k + 2 => rs[i].method \in Mutating
                    /\ i = k + 3 => IsLookup(rs[i]) /\ rs[k + 2].method = "PUT"
              /\ CountOf(rs, Mutating) <= 1
              /\ pc[p] \in {"create", "update", "delete", "refetch"} => Len(rs) >= k + 1

C8_Witness ==
    \E p \in Procs :
        /\ pc[p] = "exit" /\ outcome[p] = "ok"
        /\ Len(reqs[p]) = 4
        /\ IsZoneList(reqs[p][1]) /\ IsLookup(reqs[p][2])
        /\ reqs[p][3].method = "PUT" /\ IsLookup(reqs[p][4])

(***************************************************************************)
(* C9  Update path: a real present invocation that finds a record whose    *)
(* ttl or value set differs from the desired one and ends with exit_json   *)
(* has issued exactly one PUT, to .../records/{name}/{type} with the       *)
(* desired values and ttl, followed by a re-fetch; it reports changed=true *)
(* and returns the provider's record as it is after the update, whose      *)
(* value set and (when a ttl is desired) ttl are the desired ones.         *)
(***************************************************************************)
C9_UpdatePath ==
    \A p \in Procs :
        ( /\ IsLivedns(p, "present") /\ ~args[p].check_mode
          /\ pc[p] = "exit" /\ outcome[p] = "ok" /\ quiet[p]
          /\ Target(args[p], store0[p]) # <<>>
          /\ ~Same(args[p], Target(args[p], store0[p])[1]) )
        => LET rs == reqs[p]
               n == Len(rs)
               now == Target(args[p], store)
           IN /\ CountOf(rs, Mutating) = 1 /\ CountOf(rs, {"PUT"}) = 1
              /\ n >= 3
              /\ rs[n - 1].method = "PUT"
              /\ rs[n - 1].url = TargetScope(args[p])
                                   \o <<"records", Lower(args[p].record[1]), args[p].type[1]>>
              /\ rs[n - 1].payload = Some([rrset_values |-> args[p].values,
                                           rrset_ttl |-> args[p].ttl])
              /\ IsLookup(rs[n])
              /\ changed[p] = TRUE
              /\ now # <<>> /\ Shows(result[p], now[1])
              /\ SetOf(result[p][1]["values"][1]) = SetOf(args[p].values[1])
              /\ args[p].ttl # None => result[p][1]["ttl"] = args[p].ttl

\* existing values [a] with ttl 300, desired ttl 10800 and the same values
C9_Witness ==
    \E p \in Procs :
        /\ IsLivedns(p, "present") /\ ~args[p].check_mode
        /\ pc[p] = "exit" /\ outcome[p] = "ok" /\ changed[p]
        /\ Target(args[p], store0[p]) = <<Rrset("www", "A", <<"a">>, 300)>>
        /\ args[p].values = Some(<<"a">>) /\ args[p].ttl = Some(10800)
        /\ CountOf(reqs[p], {"PUT"}) = 1
        /\ Get(result[p][1], "ttl") = Some(10800)

Misuse(a) == a.values # None \/ a.type = None \/ a.record = None

(***************************************************************************)
(* C10  Delete misuse: an absent request that carries values, or lacks a   *)
(* type or a name, ends in a fatal error and never issues a DELETE,        *)
(* whatever the remote state and in dry-run as in real mode.               *)
(***************************************************************************)
C10_DeleteMisuseFails ==
    \A p \in Procs :
        (IsLivedns(p, "absent") /\ Misuse(args[p]))
        => /\ "DELETE" \notin MethodsOf(reqs[p])
           /\ pc[p] = "exit" => outcome[p] # "ok"

(***************************************************************************)
(* C11  Dry-run faithfulness: the same task against the same remote state, *)
(* answered without HTTP errors, ends the same way with check_mode on      *)
(* (process 1) and off (process 2): both fail, or both end with exit_json  *)
(* and the same changed.                                                   *)
(***************************************************************************)
C11_DryRunFaithful ==
    ( /\ pc[1] = "exit" /\ pc[2] = "exit"
      /\ outcome[1] # "api_error" /\ outcome[2] # "api_error" )
    => /\ (outcome[1] = "ok") <=> (outcome[2] = "ok")
       /\ outcome[1] = "ok" => changed[1] = changed[2]

(***************************************************************************)
(* C12  Re-fetch after update under interleaving: once the real present    *)
(* invocation (process 1) has had its PUT accepted, the re-fetch, when the *)
(* provider answers it without an HTTP error other than 404, yields a      *)
(* non-empty record list and the invocation ends with exit_json, a record  *)
(* result and changed=true, whatever the absent invocation (process 2)     *)
(* does in between; records[0] is never taken of None or of an empty list. *)
(***************************************************************************)
C12_RefetchFindsRecord ==
    /\ outcome[1] # "exception"
    /\ ( /\ IsLivedns(1, "present") /\ pc[1] = "exit"
         /\ "PUT" \in MethodsOf(reqs[1])
         /\ JustLookedUp(1) /\ lastGet[1] \in {200, 404} )
       => /\ TruthyList(records[1])
          /\ outcome[1] = "ok" /\ changed[1] = TRUE /\ result[1] # None

====
